---------------------------- MODULE Spec2Model ----------------------------
(***************************************************************************)
(* A model of the DefraDB Python client (src/src/defradb/defradb.py).      *)
(*                                                                         *)
(* Every public operation of DefraClient is synchronous: one action of the *)
(* model is one whole call, from its first statement to its return or to   *)
(* the exception that leaves it.  The remote node, the HTTP library, the   *)
(* gRPC library, base58, multiaddr and the GraphQL parser are the client's *)
(* environment; their answers are inputs of the actions.                   *)
(*                                                                         *)
(* Text is a sequence of characters, each a one-character string (a        *)
(* character outside printable ASCII is named, "U+00E9"; a piece of fixed   *)
(* wrapper text of a query is one element).  Raw bytes are a sequence of    *)
(* numbers in 0..255.                                                      *)
(***************************************************************************)
EXTENDS Naturals, Sequences, FiniteSets

VARIABLES
    cfg,          \* self.cfg: the DefraConfig of the client
    last,         \* the last public call: operation, arguments, answer, outcome
    wire,         \* the requests the last call put on the network, in order
    channels,     \* every gRPC channel created so far: [target, open]
    replicators,  \* the remote node's replicator records, in listing order
    loaded        \* the schema texts the remote node has accepted

vars == <<cfg, last, wire, channels, replicators, loaded>>

---------------------------------------------------------------------------
(* Bounds of the model.                                                    *)

MaxErrors == 3      \* errors in one schema-load response
MaxStr == 2         \* characters in one document value
MaxFields == 1      \* fields in one document
MaxIdLen == 2       \* characters in a peer-id string given to delete_replicator
MaxChannels == 3    \* gRPC channels created in one run

---------------------------------------------------------------------------
(* Text helpers.                                                           *)

DQ == "\""
BS == "\\"
LF == "\n"
SQ == "'"

SeqsUpTo(S, n) == UNION {[1..k -> S] : k \in 0..n}

\* Python's `a in b` on two strings: a is a contiguous part of b.
IsSubstring(a, b) ==
    \E i \in 0..(Len(b) - Len(a)) : SubSeq(b, i + 1, i + Len(a)) = a

\* How a call ends: `return value` or `raise exc(args)`.
Return(value) == [kind |-> "return", value |-> value]
Raise(exc, args) == [kind |-> "raise", exc |-> exc, args |-> args]

---------------------------------------------------------------------------
(* Configuration and routes.                                               *)

ROUTE_GRAPHQL == "graphql"
ROUTE_SCHEMA_LOAD == "schema/load"
ROUTE_PEERID == "peerid"

Url(route) == <<cfg.scheme, cfg.api_url, route>>

HttpRequest(method, route, body) ==
    [transport |-> "http", method |-> method, url |-> Url(route), body |-> body]

---------------------------------------------------------------------------
(* load_schema                                                             *)

SCHEMA_TYPE_ALREADY_EXISTS ==
    <<"s","c","h","e","m","a"," ","t","y","p","e"," ",
      "a","l","r","e","a","d","y"," ","e","x","i","s","t","s">>

\* The test of line 66 on one error object.
schema_already_exists_never(error) == FALSE
schema_already_exists(error) ==
    IsSubstring(SCHEMA_TYPE_ALREADY_EXISTS, error.message)

\* The loop of lines 65-70: the first error that is not "already exists"
\* leaves the loop by raising; <<>> when the loop runs to its end.
RECURSIVE FirstRaising(_)
FirstRaising(errors) ==
    IF errors = <<>> THEN <<>>
    ELSE IF schema_already_exists(Head(errors)) THEN FirstRaising(Tail(errors))
    ELSE <<Head(errors)>>

\* Lines 63-71, on the answer of requests.post.
load_schema_outcome_last(resp) ==
    IF resp.kind = "transport_error" THEN Raise("ConnectionError", <<>>)
    ELSE IF resp.kind = "not_json" THEN Raise("JSONDecodeError", <<>>)
    ELSE IF "errors" \in DOMAIN resp.json
         /\ \E i \in 1..Len(resp.json.errors) :
                ~schema_already_exists(resp.json.errors[i])
         THEN LET bad == {i \in 1..Len(resp.json.errors) :
                             ~schema_already_exists(resp.json.errors[i])}
                  i == CHOOSE k \in bad : \A j \in bad : j <= k
              IN Raise("Exception", <<"Failed to load schema", resp.json.errors[i]>>)
    ELSE Return(resp.json)
load_schema_outcome(resp) ==
    IF resp.kind = "transport_error" THEN Raise("ConnectionError", <<>>)
    ELSE IF resp.kind = "not_json" THEN Raise("JSONDecodeError", <<>>)
    ELSE IF "errors" \in DOMAIN resp.json /\ FirstRaising(resp.json.errors) # <<>>
         THEN Raise("Exception",
                    <<"Failed to load schema", FirstRaising(resp.json.errors)[1]>>)
    ELSE Return(resp.json)

\* What the remote node keeps of a schema load it answered without errors.
NodeLoad(schema, resp) ==
    IF resp.kind = "json" /\ "errors" \notin DOMAIN resp.json
    THEN loaded \cup {schema} ELSE loaded

load_schema(schema, resp) ==
    /\ last' = [op |-> "load_schema", arg |-> schema, resp |-> resp,
                outcome |-> load_schema_outcome(resp)]
    /\ wire' = <<HttpRequest("POST", ROUTE_SCHEMA_LOAD, schema)>>
    /\ loaded' = NodeLoad(schema, resp)
    /\ UNCHANGED <<cfg, channels, replicators>>

---------------------------------------------------------------------------
(* Inputs of the schema-load model.                                        *)

Schemas == {"type Parameters", "type Users"}

M_exists_named == SCHEMA_TYPE_ALREADY_EXISTS \o <<".", " ", "P">>
M_exists_prefixed == <<"e", ":", " ">> \o SCHEMA_TYPE_ALREADY_EXISTS
M_capital == <<"S">> \o Tail(SCHEMA_TYPE_ALREADY_EXISTS)
M_syntax == <<"s","y","n","t","a","x">>

ErrorMessages == {M_exists_named, M_exists_prefixed, M_capital, M_syntax}

Errors == {[message |-> m] : m \in ErrorMessages}

SchemaResponsesUpTo(n) ==
    {[kind |-> "transport_error"], [kind |-> "not_json"],
     [kind |-> "json", json |-> [data |-> "ok"]]}
    \cup {[kind |-> "json", json |-> [errors |-> es]] : es \in SeqsUpTo(Errors, n)}
    \cup {[kind |-> "json", json |-> [data |-> "ok", errors |-> es]] :
              es \in SeqsUpTo(Errors, 1)}

\* DefraConfig(), lines 27-29.  The default tcp_multiaddr, "localhost:9161",
\* is a text that does not begin with "/" (see the multiaddr section below).
LOCALHOST_9161 == [slash |-> FALSE, segs |-> <<>>]

DefaultConfig ==
    [api_url |-> "localhost:9181/api/v0/", tcp_multiaddr |-> LOCALHOST_9161,
     scheme |-> "http://"]

NoCall == [op |-> "none", arg |-> <<>>, resp |-> <<>>, outcome |-> Return(<<>>)]

InitSchema ==
    /\ cfg = DefaultConfig
    /\ last = NoCall
    /\ wire = <<>>
    /\ channels = <<>>
    /\ replicators = <<>>
    /\ loaded = {}

NextSchema ==
    \E schema \in Schemas, resp \in SchemaResponsesUpTo(MaxErrors) :
        load_schema(schema, resp)

SpecSchema == InitSchema /\ [][NextSchema]_vars

---------------------------------------------------------------------------
(* The query builder: json.dumps, str.replace, the f-string, gql().        *)

EACUTE == "U+00E9"   \* one character outside ASCII
TAB == "U+0009"
CR == "U+000D"
BACKSPACE == "U+0008"
FORMFEED == "U+000C"

\* json.dumps on one character of a string (json.encoder's ESCAPE tables).
py_encode_char(c, ensure_ascii) ==
    CASE c = DQ -> <<BS, DQ>>
      [] c = BS -> <<BS, BS>>
      [] c = LF -> <<BS, "n">>
      [] c = CR -> <<BS, "r">>
      [] c = TAB -> <<BS, "t">>
      [] c = BACKSPACE -> <<BS, "b">>
      [] c = FORMFEED -> <<BS, "f">>
      [] c = EACUTE -> IF ensure_ascii THEN <<BS, "u", "0", "0", "e", "9">>
                       ELSE <<EACUTE>>
      [] OTHER -> <<c>>

RECURSIVE py_encode_chars(_, _)
py_encode_chars(s, ensure_ascii) ==
    IF s = <<>> THEN <<>>
    ELSE py_encode_char(Head(s), ensure_ascii) \o py_encode_chars(Tail(s), ensure_ascii)

\* json.dumps on a str.
json_dumps_str(s, ensure_ascii) == <<DQ>> \o py_encode_chars(s, ensure_ascii) \o <<DQ>>

\* json.dumps on a dict of str to str, given as its items in insertion order.
RECURSIVE json_dumps_items(_, _)
json_dumps_items(items, ensure_ascii) ==
    IF items = <<>> THEN <<>>
    ELSE json_dumps_str(Head(items)[1], ensure_ascii) \o <<":", " ">>
         \o json_dumps_str(Head(items)[2], ensure_ascii)
         \o (IF Tail(items) = <<>> THEN <<>>
             ELSE <<",", " ">> \o json_dumps_items(Tail(items), ensure_ascii))

json_dumps(data, ensure_ascii) ==
    <<"{">> \o json_dumps_items(data, ensure_ascii) \o <<"}">>

\* str.replace(old, new) for a one-character old.
RECURSIVE str_replace(_, _, _)
str_replace(s, old, new) ==
    IF s = <<>> THEN <<>>
    ELSE (IF Head(s) = old THEN new ELSE <<Head(s)>>) \o str_replace(Tail(s), old, new)

\* The escaping step of lines 77, 145 and 160: .replace('"', '\\"').
escape_quotes(data_json) == str_replace(data_json, DQ, <<BS, DQ>>)

\* The f-strings of lines 78-82, 146-152 and 161-167.  The text around the
\* data literal holds no quote, backslash or line break that matters to the
\* lexer of the literal; each piece of it is one element of the sequence.
MUTATION_OPEN == "mutation { "
DATA_OPEN == "(data: "
SELECTION == ") { _key } }"

request_string(verb, sep, schema_type, data_string) ==
    <<MUTATION_OPEN, verb, schema_type>> \o sep \o <<DATA_OPEN, DQ>>
    \o data_string \o <<DQ, SELECTION>>

\* The GraphQL lexer on the characters after a string literal's opening
\* quote (graphql-core's read_string, called by gql()): the value of the
\* literal and the text after its closing quote, or no literal.
EscapedChar(e) ==
    CASE e = DQ -> <<DQ>>
      [] e = BS -> <<BS>>
      [] e = "/" -> <<"/">>
      [] e = "n" -> <<LF>>
      [] e = "r" -> <<CR>>
      [] e = "t" -> <<TAB>>
      [] e = "b" -> <<BACKSPACE>>
      [] e = "f" -> <<FORMFEED>>
      [] OTHER -> <<>>

RECURSIVE read_string(_, _)
read_string(s, acc) ==
    IF s = <<>> THEN [ok |-> FALSE, value |-> acc, rest |-> <<>>]
    ELSE IF Head(s) = DQ THEN [ok |-> TRUE, value |-> acc, rest |-> Tail(s)]
    ELSE IF Head(s) \in {LF, CR} THEN [ok |-> FALSE, value |-> acc, rest |-> s]
    ELSE IF Head(s) = BS
         THEN IF Len(s) < 2 THEN [ok |-> FALSE, value |-> acc, rest |-> s]
              ELSE IF s[2] = "u"
                   THEN IF Len(s) >= 6 /\ SubSeq(s, 3, 6) = <<"0", "0", "e", "9">>
                        THEN read_string(SubSeq(s, 7, Len(s)), acc \o <<EACUTE>>)
                        ELSE [ok |-> FALSE, value |-> acc, rest |-> s]
              ELSE IF EscapedChar(s[2]) = <<>>
                   THEN [ok |-> FALSE, value |-> acc, rest |-> s]
              ELSE read_string(SubSeq(s, 3, Len(s)), acc \o EscapedChar(s[2]))
    ELSE read_string(Tail(s), acc \o <<Head(s)>>)

\* gql(request_string) on a mutation built above: the DocumentNode, or the
\* syntax error of a document whose data literal does not end where the
\* f-string closes it.
gql(text) ==
    LET n == CHOOSE i \in 1..Len(text) : text[i] = DATA_OPEN
        lit == read_string(SubSeq(text, n + 2, Len(text)), <<>>)
    IN IF lit.ok /\ lit.rest = <<SELECTION>>
       THEN Return([operation |-> "mutation",
                    field |-> SubSeq(text, 2, n - 1),
                    data |-> lit.value,
                    selection |-> "_key"])
       ELSE Raise("GraphQLSyntaxError", <<>>)

\* dict_to_create_query and dict_to_update_query, lines 141-168.
dict_to_create_query_value(schema_type, data) ==
    gql(request_string("create_", <<>>, schema_type,
                       escape_quotes(json_dumps(data, FALSE))))

dict_to_update_query_value(schema_type, data) ==
    gql(request_string("update_", <<>>, schema_type,
                       escape_quotes(json_dumps(data, FALSE))))

\* The builder inside create_doc, lines 77-83 (gql(request)).
create_doc_query(typename, data) ==
    gql(request_string("create_", <<" ">>, typename,
                       escape_quotes(json_dumps(data, TRUE))))

\* client.execute(request), line 54, on the answer of the HTTP transport.
execute_outcome(resp) ==
    IF resp.kind = "transport_error" THEN Raise("TransportServerError", <<>>)
    ELSE IF resp.kind = "not_json" THEN Raise("TransportProtocolError", <<>>)
    ELSE IF "errors" \in DOMAIN resp.json
         THEN Raise("TransportQueryError", resp.json.errors)
    ELSE Return(resp.json.data)

\* DefraClient.request, lines 46-55.
request_twice_on_failure(document, resp) ==
    /\ last' = [op |-> "request", arg |-> document, resp |-> resp,
                outcome |-> execute_outcome(resp)]
    /\ wire' = IF execute_outcome(resp).kind = "raise"
               THEN <<HttpRequest("POST", ROUTE_GRAPHQL, document),
                      HttpRequest("POST", ROUTE_GRAPHQL, document)>>
               ELSE <<HttpRequest("POST", ROUTE_GRAPHQL, document)>>
    /\ UNCHANGED <<cfg, channels, replicators, loaded>>
request(document, resp) ==
    /\ last' = [op |-> "request", arg |-> document, resp |-> resp,
                outcome |-> execute_outcome(resp)]
    /\ wire' = <<HttpRequest("POST", ROUTE_GRAPHQL, document)>>
    /\ UNCHANGED <<cfg, channels, replicators, loaded>>

\* DefraClient.create_doc, lines 73-84.
create_doc(typename, data, resp) ==
    LET built == create_doc_query(typename, data)
    IN /\ last' = [op |-> "create_doc", arg |-> <<typename, data>>, resp |-> resp,
                   built |-> built,
                   outcome |-> IF built.kind = "raise" THEN built
                               ELSE execute_outcome(resp)]
       /\ wire' = IF built.kind = "raise" THEN <<>>
                  ELSE <<HttpRequest("POST", ROUTE_GRAPHQL, built.value)>>
       /\ UNCHANGED <<cfg, channels, replicators, loaded>>

\* A call of dict_to_create_query (as in example.py, line 35).
dict_to_create_query(schema_type, data) ==
    LET built == dict_to_create_query_value(schema_type, data)
    IN /\ last' = [op |-> "dict_to_create_query", arg |-> <<schema_type, data>>,
                   resp |-> <<>>, built |-> built, outcome |-> built]
       /\ wire' = <<>>
       /\ UNCHANGED <<cfg, channels, replicators, loaded>>

\* A call of dict_to_update_query.
dict_to_update_query(schema_type, data) ==
    LET built == dict_to_update_query_value(schema_type, data)
    IN /\ last' = [op |-> "dict_to_update_query", arg |-> <<schema_type, data>>,
                   resp |-> <<>>, built |-> built, outcome |-> built]
       /\ wire' = <<>>
       /\ UNCHANGED <<cfg, channels, replicators, loaded>>

---------------------------------------------------------------------------
(* Inputs of the query-builder model.                                      *)

TypeNames == {"Parameters"}
FieldNames == {<<"a">>, <<"b">>}
DocChars == {"x", DQ, BS, LF, EACUTE}
DocValues == SeqsUpTo(DocChars, MaxStr)

\* {"a": "x\"y"}, the document of the spec's escaping test.
QuotedDocument == <<<< <<"a">>, <<"x", DQ, "y">> >>>>

\* Documents: dicts, so no key twice.
Documents ==
    {d \in SeqsUpTo(FieldNames \X DocValues, MaxFields) :
        \A i, j \in 1..Len(d) : i # j => d[i][1] # d[j][1]}
    \cup {QuotedDocument}

QueryResponses ==
    {[kind |-> "transport_error"], [kind |-> "not_json"],
     [kind |-> "json", json |-> [data |-> "doc"]],
     [kind |-> "json", json |-> [errors |-> <<[message |-> M_syntax]>>]]}

\* The documents a caller hands to request(): built by dict_to_create_query
\* as in example.py, or a query written by hand.
RawQuery == [operation |-> "query", field |-> <<"Parameters">>,
             data |-> <<>>, selection |-> "_key a b c"]

InitQuery == InitSchema

NextQuery ==
    \/ \E t \in TypeNames, d \in Documents : dict_to_create_query(t, d)
    \/ \E t \in TypeNames, d \in Documents : dict_to_update_query(t, d)
    \/ \E t \in TypeNames, d \in Documents, resp \in QueryResponses :
           create_doc(t, d, resp)
    \/ \E resp \in QueryResponses :
           \/ request(RawQuery, resp)
           \/ /\ last.op = "dict_to_create_query"
              /\ last.outcome.kind = "return"
              /\ request(last.outcome.value, resp)

SpecQuery == InitQuery /\ [][NextQuery]_vars

---------------------------------------------------------------------------
(* base58: the codec behind base58.b58encode and base58.b58decode.         *)

BITCOIN_ALPHABET ==
    <<"1","2","3","4","5","6","7","8","9",
      "A","B","C","D","E","F","G","H","J","K","L","M","N","P","Q","R","S","T",
      "U","V","W","X","Y","Z",
      "a","b","c","d","e","f","g","h","i","j","k","m","n","o","p","q","r","s",
      "t","u","v","w","x","y","z">>

AlphabetChars == {BITCOIN_ALPHABET[i] : i \in 1..Len(BITCOIN_ALPHABET)}

DigitOf(c) == (CHOOSE i \in 1..Len(BITCOIN_ALPHABET) : BITCOIN_ALPHABET[i] = c) - 1

\* A Python bytes object that holds ASCII text, and the two ways the client
\* turns one into a str: str(b) is its repr, b'...'; b.decode() is its text.
PyBytes(text) == [type |-> "bytes", text |-> text]
py_str(b) == <<"b", SQ>> \o b.text \o <<SQ>>
bytes_decode(b) == b.text

RECURSIVE LStripCount(_, _)
LStripCount(s, c) ==
    IF s # <<>> /\ Head(s) = c THEN 1 + LStripCount(Tail(s), c) ELSE 0

Repeat(c, n) == [i \in 1..n |-> c]

\* int.from_bytes(v, 'big') and its inverse without leading zero bytes.
RECURSIVE IntFromBytes(_, _)
IntFromBytes(v, acc) ==
    IF v = <<>> THEN acc ELSE IntFromBytes(Tail(v), acc * 256 + Head(v))

RECURSIVE IntToBytes(_)
IntToBytes(n) == IF n = 0 THEN <<>> ELSE IntToBytes(n \div 256) \o <<n % 256>>

RECURSIVE b58decode_int(_, _)
b58decode_int(v, acc) ==
    IF v = <<>> THEN acc ELSE b58decode_int(Tail(v), acc * 58 + DigitOf(Head(v)))

RECURSIVE b58encode_int(_)
b58encode_int(n) ==
    IF n = 0 THEN <<>>
    ELSE b58encode_int(n \div 58) \o <<BITCOIN_ALPHABET[(n % 58) + 1]>>

\* base58.b58encode(v): bytes in, bytes (ASCII text) out.
b58encode(v) ==
    LET zeros == LStripCount(v, 0)
    IN PyBytes(Repeat("1", zeros)
               \o b58encode_int(IntFromBytes(SubSeq(v, zeros + 1, Len(v)), 0)))

\* base58.b58decode(v): the bytes, or ValueError on a character outside the
\* alphabet.
b58decode_lenient(v) ==
    LET w == SelectSeq(v, LAMBDA c : c \in AlphabetChars)
        ones == LStripCount(w, "1")
    IN Return(Repeat(0, ones)
              \o IntToBytes(b58decode_int(SubSeq(w, ones + 1, Len(w)), 0)))
b58decode(v) ==
    IF \E i \in 1..Len(v) : v[i] \notin AlphabetChars
    THEN Raise("ValueError", <<"Invalid character">>)
    ELSE LET ones == LStripCount(v, "1")
         IN Return(Repeat(0, ones)
                   \o IntToBytes(b58decode_int(SubSeq(v, ones + 1, Len(v)), 0)))

---------------------------------------------------------------------------
(* multiaddr: text form, binary form, value_for_protocol.                  *)
(*                                                                         *)
(* The text form "/ip4/127.0.0.1/tcp/9161" is                              *)
(*   [slash |-> TRUE, segs |-> <<[proto |-> "ip4", value |-> <<127,0,0,1>>],*)
(*                               [proto |-> "tcp", value |-> <<9161>>]>>]  *)
(* and slash is FALSE for a text that does not begin with "/".             *)

P_IP4 == 4
P_TCP == 6

ProtoCode(name) ==
    CASE name = "ip4" -> P_IP4 [] name = "tcp" -> P_TCP [] name = "udp" -> 273
      [] OTHER -> 0

ProtoName(code) ==
    CASE code = P_IP4 -> "ip4" [] code = P_TCP -> "tcp" [] code = 273 -> "udp"
      [] OTHER -> "?"

\* Bytes of a protocol's value in the binary form.
ProtoSize(code) == IF code = P_IP4 THEN 4 ELSE 2

RECURSIVE Varint(_)
Varint(n) == IF n < 128 THEN <<n>> ELSE <<(n % 128) + 128>> \o Varint(n \div 128)

ValueOk(code, value) ==
    IF code = P_IP4 THEN Len(value) = 4 /\ \A i \in 1..4 : value[i] < 256
    ELSE Len(value) = 1 /\ value[1] < 65536

ValueToBytes(code, value) ==
    IF code = P_IP4 THEN value ELSE <<value[1] \div 256, value[1] % 256>>

ValueFromBytes(code, b) ==
    IF code = P_IP4 THEN b ELSE <<b[1] * 256 + b[2]>>

RECURSIVE SegsToBytes(_)
SegsToBytes(segs) ==
    IF segs = <<>> THEN <<>>
    ELSE Varint(ProtoCode(Head(segs).proto))
         \o ValueToBytes(ProtoCode(Head(segs).proto), Head(segs).value)
         \o SegsToBytes(Tail(segs))

\* multiaddr.Multiaddr(str): the address object (its binary form), or the
\* parse error of a text without the leading "/", with an unknown protocol
\* or with a value its protocol cannot hold.
MultiaddrOfStr(text) ==
    IF ~text.slash THEN Raise("StringParseError", <<"Must begin with /">>)
    ELSE IF \E i \in 1..Len(text.segs) : ProtoCode(text.segs[i].proto) = 0
         THEN Raise("StringParseError", <<"Unknown Protocol">>)
    ELSE IF \E i \in 1..Len(text.segs) :
                ~ValueOk(ProtoCode(text.segs[i].proto), text.segs[i].value)
         THEN Raise("StringParseError", <<"Invalid value">>)
    ELSE Return([type |-> "Multiaddr", bytes |-> SegsToBytes(text.segs)])

\* multiaddr.Multiaddr(bytes): the bytes are kept as they are.
MultiaddrOfBytes(b) == [type |-> "Multiaddr", bytes |-> b]

\* The (protocol code, value) items of a binary form, in order.
RECURSIVE BytesToItems(_)
BytesToItems(b) ==
    IF b = <<>> THEN <<>>
    ELSE LET wide == Head(b) >= 128
             code == IF wide THEN (Head(b) - 128) + 128 * b[2] ELSE Head(b)
             from == IF wide THEN 3 ELSE 2
             size == ProtoSize(code)
         IN <<[code |-> code,
               value |-> ValueFromBytes(code, SubSeq(b, from, from + size - 1))]>>
            \o BytesToItems(SubSeq(b, from + size, Len(b)))

\* Multiaddr.value_for_protocol(code): the value of the first segment of that
\* protocol, or ProtocolLookupError.
value_for_protocol_last(m, code) ==
    LET items == BytesToItems(m.bytes)
        hits == {i \in 1..Len(items) : items[i].code = code}
    IN IF hits = {} THEN Raise("ProtocolLookupError", <<ProtoName(code)>>)
       ELSE Return(items[CHOOSE i \in hits : \A j \in hits : j <= i].value)
value_for_protocol(m, code) ==
    LET items == BytesToItems(m.bytes)
        hits == {i \in 1..Len(items) : items[i].code = code}
    IN IF hits = {} THEN Raise("ProtocolLookupError", <<ProtoName(code)>>)
       ELSE Return(items[CHOOSE i \in hits : \A j \in hits : i <= j].value)

\* _multiaddr_to_porthost, lines 171-175; f"{ip}:{port}" is the record of the
\* two values it joins with ":".
_multiaddr_to_porthost(maddr) ==
    LET m == MultiaddrOfStr(maddr)
    IN IF m.kind = "raise" THEN m
       ELSE LET ip == value_for_protocol(m.value, P_IP4)
                port == value_for_protocol(m.value, P_TCP)
            IN IF ip.kind = "raise" THEN ip
               ELSE IF port.kind = "raise" THEN port
               ELSE Return([host |-> ip.value, port |-> port.value[1]])

---------------------------------------------------------------------------
(* The replicator operations over gRPC.                                    *)

\* _get_rpc_client, lines 126-130: the stub (the index of its channel) or the
\* error of the address translation, and the channels after the call.
get_rpc_client_closing(addr) ==
    LET t == _multiaddr_to_porthost(addr)
    IN IF t.kind = "raise" THEN [result |-> t, channels |-> channels]
       ELSE [result |-> Return(Len(channels) + 1),
             channels |-> Append(channels, [target |-> t.value, open |-> FALSE])]
_get_rpc_client(addr) ==
    LET t == _multiaddr_to_porthost(addr)
    IN IF t.kind = "raise" THEN [result |-> t, channels |-> channels]
       ELSE [result |-> Return(Len(channels) + 1),
             channels |-> Append(channels, [target |-> t.value, open |-> TRUE])]

RpcRequest(stub, method, message) ==
    [transport |-> "grpc", channel |-> stub, method |-> method, message |-> message]

\* The remote node (spec, section 3): a replicator record is created by
\* SetReplicator, removed by DeleteReplicator; one record per peer.
RECURSIVE WithoutPeer(_, _)
WithoutPeer(records, id) ==
    IF records = <<>> THEN <<>>
    ELSE (IF Head(records).id = id THEN <<>> ELSE <<Head(records)>>)
         \o WithoutPeer(Tail(records), id)

NodeSetReplicator(collections, addr, id) ==
    IF \E i \in 1..Len(replicators) : replicators[i].id = id
    THEN [i \in 1..Len(replicators) |->
            IF replicators[i].id = id
            THEN [id |-> id, addrs |-> addr, schemas |-> collections]
            ELSE replicators[i]]
    ELSE Append(replicators, [id |-> id, addrs |-> addr, schemas |-> collections])

NodeDeleteReplicator(id) == WithoutPeer(replicators, id)

\* DefraClient.set_replicator, lines 86-97.
set_replicator(collections, maddr, resp) ==
    LET client == _get_rpc_client(cfg.tcp_multiaddr)
        m == MultiaddrOfStr(maddr)
        sent == client.result.kind = "return" /\ m.kind = "return"
        request_ == RpcRequest(client.result.value, "SetReplicator",
                               [collections |-> collections, addr |-> m.value.bytes])
    IN /\ Len(channels) < MaxChannels
       /\ last' = [op |-> "set_replicator", arg |-> <<collections, maddr>>,
                   resp |-> resp,
                   outcome |->
                       IF client.result.kind = "raise" THEN client.result
                       ELSE IF m.kind = "raise" THEN m
                       ELSE IF resp.kind = "error" THEN Raise("RpcError", <<>>)
                       ELSE Return(py_str(b58encode(resp.peerID)))]
       /\ wire' = IF sent THEN <<request_>> ELSE <<>>
       /\ channels' = client.channels
       /\ replicators' = IF sent /\ resp.kind = "ok"
                         THEN NodeSetReplicator(collections, m.value.bytes, resp.peerID)
                         ELSE replicators
       /\ UNCHANGED <<cfg, loaded>>

\* DefraClient.delete_replicator, lines 99-108.  The remote answers with an
\* error, or with identifier bytes: those it was sent ("echo") or others.
delete_replicator(peerID, resp) ==
    LET client == _get_rpc_client(cfg.tcp_multiaddr)
        peerIDbytes == b58decode(peerID)
        sent == client.result.kind = "return" /\ peerIDbytes.kind = "return"
        request_ == RpcRequest(client.result.value, "DeleteReplicator",
                               [peerID |-> peerIDbytes.value])
        response_peerID == IF resp.kind = "echo" THEN peerIDbytes.value
                           ELSE resp.peerID
    IN /\ Len(channels) < MaxChannels
       /\ last' = [op |-> "delete_replicator", arg |-> peerID, resp |-> resp,
                   outcome |->
                       IF client.result.kind = "raise" THEN client.result
                       ELSE IF peerIDbytes.kind = "raise" THEN peerIDbytes
                       ELSE IF resp.kind = "error" THEN Raise("RpcError", <<>>)
                       ELSE Return(py_str(b58encode(response_peerID)))]
       /\ wire' = IF sent THEN <<request_>> ELSE <<>>
       /\ channels' = client.channels
       /\ replicators' = IF sent /\ resp.kind # "error"
                         THEN NodeDeleteReplicator(peerIDbytes.value)
                         ELSE replicators
       /\ UNCHANGED <<cfg, loaded>>

\* The loop body of lines 118-123 on one replicator of the response.
replicator_record_repr(r) ==
    [id |-> py_str(b58encode(r.id)),
     addrs |-> MultiaddrOfBytes(r.addrs),
     schemas |-> r.schemas]
replicator_record(r) ==
    [id |-> bytes_decode(b58encode(r.id)),
     addrs |-> MultiaddrOfBytes(r.addrs),
     schemas |-> r.schemas]

\* DefraClient.get_all_replicators, lines 110-124.
get_all_replicators(resp) ==
    LET client == _get_rpc_client(cfg.tcp_multiaddr)
        sent == client.result.kind = "return"
        request_ == RpcRequest(client.result.value, "GetAllReplicators", <<>>)
    IN /\ Len(channels) < MaxChannels
       /\ last' = [op |-> "get_all_replicators", arg |-> <<>>,
                   resp |-> IF resp.kind = "ok"
                            THEN [kind |-> "ok", replicators |-> replicators]
                            ELSE resp,
                   outcome |->
                       IF client.result.kind = "raise" THEN client.result
                       ELSE IF resp.kind = "error" THEN Raise("RpcError", <<>>)
                       ELSE Return([i \in 1..Len(replicators) |->
                                       replicator_record(replicators[i])])]
       /\ wire' = IF sent THEN <<request_>> ELSE <<>>
       /\ channels' = client.channels
       /\ UNCHANGED <<cfg, replicators, loaded>>

\* DefraClient._get_peerid, lines 132-138.
_get_peerid(resp) ==
    /\ last' = [op |-> "_get_peerid", arg |-> <<>>, resp |-> resp,
                outcome |->
                    IF resp.kind = "transport_error"
                    THEN Raise("ConnectionError", <<>>)
                    ELSE IF resp.status_code # 200
                    THEN Raise("Exception", <<"Failed to get peerid", resp.text>>)
                    ELSE IF resp.kind = "not_json"
                    THEN Raise("JSONDecodeError", <<>>)
                    ELSE Return(resp.json.data.peerID)]
    /\ wire' = <<HttpRequest("GET", ROUTE_PEERID, <<>>)>>
    /\ UNCHANGED <<cfg, channels, replicators, loaded>>

---------------------------------------------------------------------------
(* Inputs of the replicator model.                                         *)

Seg(proto, value) == [proto |-> proto, value |-> value]
Addr(segs) == [slash |-> TRUE, segs |-> segs]

A_ok == Addr(<<Seg("ip4", <<127, 0, 0, 1>>), Seg("tcp", <<9161>>)>>)
A_extra == Addr(<<Seg("udp", <<53>>), Seg("ip4", <<127, 0, 0, 1>>),
                  Seg("tcp", <<9161>>), Seg("ip4", <<10, 0, 0, 2>>),
                  Seg("tcp", <<9171>>)>>)
A_no_tcp == Addr(<<Seg("ip4", <<127, 0, 0, 1>>), Seg("udp", <<53>>)>>)
A_no_ip4 == Addr(<<Seg("tcp", <<9161>>)>>)
A_empty == Addr(<<>>)
A_peer == Addr(<<Seg("ip4", <<10, 0, 0, 2>>), Seg("tcp", <<9171>>)>>)
A_bad_value == Addr(<<Seg("ip4", <<10, 0, 0, 256>>), Seg("tcp", <<9171>>)>>)

ConfigAddrs == {LOCALHOST_9161, A_ok, A_extra, A_no_tcp, A_no_ip4, A_empty}
Configs == {[DefaultConfig EXCEPT !.tcp_multiaddr = a] : a \in ConfigAddrs}

ReplicatorAddrs == {A_peer, A_bad_value}
Collections == {<<"Parameters">>, <<"Users", "Parameters">>}
PeerIdBytes == {<<0, 57>>, <<1, 0>>}
IdChars == {"z", "0"}
PeerIdStrings ==
    SeqsUpTo(IdChars, MaxIdLen) \cup {bytes_decode(b58encode(b)) : b \in PeerIdBytes}

SetResponses == {[kind |-> "error"]} \cup {[kind |-> "ok", peerID |-> b] : b \in PeerIdBytes}
DeleteResponses == {[kind |-> "error"], [kind |-> "echo"], [kind |-> "ok", peerID |-> <<1, 0>>]}
ListResponses == {[kind |-> "error"], [kind |-> "ok"]}
PeerIdResponses ==
    {[kind |-> "transport_error"],
     [kind |-> "json", status_code |-> 200, json |-> [data |-> [peerID |-> <<"1", "z">>]]],
     [kind |-> "not_json", status_code |-> 200],
     [kind |-> "json", status_code |-> 500, text |-> "error"]}

InitRepl ==
    /\ cfg \in Configs
    /\ last = NoCall
    /\ wire = <<>>
    /\ channels = <<>>
    /\ replicators = <<>>
    /\ loaded = {}

NextRepl ==
    \/ \E c \in Collections, a \in ReplicatorAddrs, resp \in SetResponses :
           set_replicator(c, a, resp)
    \/ \E s \in PeerIdStrings, resp \in DeleteResponses : delete_replicator(s, resp)
    \/ \E resp \in ListResponses : get_all_replicators(resp)

SpecRepl == InitRepl /\ [][NextRepl]_vars

---------------------------------------------------------------------------
(* The whole client: every public operation, on a few inputs each.         *)

SomeDocuments == {<<>>, <<<< <<"a">>, <<"x">> >>>>, QuotedDocument}
SomePeerIds == {<<"1", "z">>, <<"5", "R">>, <<"0">>}

Init ==
    /\ cfg \in {DefaultConfig, [DefaultConfig EXCEPT !.tcp_multiaddr = A_ok]}
    /\ last = NoCall
    /\ wire = <<>>
    /\ channels = <<>>
    /\ replicators = <<>>
    /\ loaded = {}

Next ==
    \/ \E resp \in SchemaResponsesUpTo(1) : load_schema("type Parameters", resp)
    \/ \E d \in SomeDocuments : dict_to_create_query("Parameters", d)
    \/ \E d \in SomeDocuments : dict_to_update_query("Parameters", d)
    \/ \E d \in SomeDocuments, resp \in QueryResponses : create_doc("Parameters", d, resp)
    \/ \E resp \in QueryResponses :
           \/ request(RawQuery, resp)
           \/ /\ last.op = "dict_to_create_query"
              /\ last.outcome.kind = "return"
              /\ request(last.outcome.value, resp)
    \/ \E a \in ReplicatorAddrs, resp \in SetResponses :
           set_replicator(<<"Parameters">>, a, resp)
    \/ \E s \in SomePeerIds, resp \in DeleteResponses : delete_replicator(s, resp)
    \/ \E resp \in ListResponses : get_all_replicators(resp)
    \/ \E resp \in PeerIdResponses : _get_peerid(resp)

Spec == Init /\ [][Next]_vars

---------------------------------------------------------------------------
(* Properties.                                                             *)

ReplicatorOps == {"set_replicator", "delete_replicator", "get_all_replicators"}

\* The error list of the last schema-load response, <<>> when it has none.
LastErrors ==
    IF last.op = "load_schema" /\ last.resp.kind = "json"
       /\ "errors" \in DOMAIN last.resp.json
    THEN last.resp.json.errors ELSE <<>>

MatchesAlreadyExists(error) == IsSubstring(SCHEMA_TYPE_ALREADY_EXISTS, error.message)

\* C1: load_schema is idempotent.  Whenever the node answers a schema load
\* with JSON whose error list (if any) holds only errors whose message
\* includes "schema type already exists", load_schema raises nothing and
\* returns the parsed response; so a second load of a schema the node has
\* already accepted succeeds like the first.
C1_LoadSchemaIdempotent ==
    (/\ last.op = "load_schema"
     /\ last.resp.kind = "json"
     /\ \A i \in 1..Len(LastErrors) : MatchesAlreadyExists(LastErrors[i]))
    => last.outcome = Return(last.resp.json)

\* A second load of an accepted schema, answered with two "already exists"
\* errors, has returned the response.
C1_Witness ==
    /\ last.op = "load_schema"
    /\ last.arg \in loaded
    /\ Len(LastErrors) = 2
    /\ \A i \in 1..2 : MatchesAlreadyExists(LastErrors[i])
    /\ last.outcome.kind = "return"
    /\ last.outcome.value = last.resp.json

\* C2: when the error list of a schema-load response holds an error whose
\* message does not match "already exists", load_schema raises the error
\* ("Failed to load schema") carrying the first such error in list order,
\* whatever "already exists" errors stand before or after it, and returns
\* nothing.
C2_FirstNonIdempotentErrorRaised ==
    LET bad == {i \in 1..Len(LastErrors) : ~MatchesAlreadyExists(LastErrors[i])}
    IN bad # {} =>
           LET first == CHOOSE i \in bad : \A j \in bad : i <= j
           IN last.outcome = Raise("Exception",
                                   <<"Failed to load schema", LastErrors[first]>>)

\* An "already exists" error, then two different other errors: the call has
\* raised the second error of the list.
C2_Witness ==
    /\ Len(LastErrors) = 3
    /\ MatchesAlreadyExists(LastErrors[1])
    /\ ~MatchesAlreadyExists(LastErrors[2])
    /\ ~MatchesAlreadyExists(LastErrors[3])
    /\ LastErrors[2] # LastErrors[3]
    /\ last.outcome.kind = "raise"
    /\ last.outcome.args[2] = LastErrors[2]

\* C3: query escaping round-trips.  For every type name and document, the
\* payload built by dict_to_create_query, dict_to_update_query and create_doc
\* holds a data literal that ends where the builder closes it (the document
\* parses), and the literal's value, as the GraphQL lexer unescapes it, is the
\* JSON serialization of the document (with or without its non-ASCII
\* characters escaped).
C3_EscapingRoundTrips ==
    last.op \in {"dict_to_create_query", "dict_to_update_query", "create_doc"}
    => /\ last.built.kind = "return"
       /\ last.built.value.data
              \in {json_dumps(last.arg[2], TRUE), json_dumps(last.arg[2], FALSE)}

\* C4: delete_replicator echoes its input.  When the remote answers
\* DeleteReplicator with the identifier bytes it was sent, the call returns
\* the peer-id string it was given.
C4_DeleteEchoesInput ==
    (/\ last.op = "delete_replicator"
     /\ last.outcome.kind = "return"
     /\ \/ last.resp.kind = "echo"
        \/ /\ last.resp.kind = "ok"
           /\ b58decode(last.arg) = Return(last.resp.peerID))
    => last.outcome.value = last.arg

\* C5: set_replicator returns a base-58 string.  When the remote answers
\* SetReplicator with identifier bytes b, the call returns a non-empty string
\* of base-58 alphabet characters that decodes to b.
C5_SetReturnsBase58 ==
    (last.op = "set_replicator" /\ last.outcome.kind = "return")
    => /\ last.outcome.value # <<>>
       /\ \A i \in 1..Len(last.outcome.value) : last.outcome.value[i] \in AlphabetChars
       /\ b58decode(last.outcome.value) = Return(last.resp.peerID)

\* What C6 says of one returned listing: one record per replicator of the
\* response, in order; the id base-58-decodes to the identifier bytes, addrs
\* is the address object of the address bytes, schemas are passed through.
ListingFaithful(listing, remote) ==
    /\ Len(listing) = Len(remote)
    /\ \A i \in 1..Len(remote) :
           /\ b58decode(listing[i].id) = Return(remote[i].id)
           /\ \A k \in 1..Len(listing[i].id) : listing[i].id[k] \in AlphabetChars
           /\ listing[i].addrs = MultiaddrOfBytes(remote[i].addrs)
           /\ listing[i].schemas = remote[i].schemas

\* C6: get_all_replicators returns exactly one record per replicator of the
\* GetAllReplicators response, in the same order, each faithful to its
\* replicator; and a listing that follows a set_replicator(c, addr) the
\* remote accepted includes a record whose schemas are c.
C6_ListingFaithful ==
    /\ [](last.op = "get_all_replicators" /\ last.outcome.kind = "return"
          => ListingFaithful(last.outcome.value, last.resp.replicators))
    /\ [][(/\ last.op = "set_replicator"
           /\ last.outcome.kind = "return"
           /\ last'.op = "get_all_replicators"
           /\ last'.outcome.kind = "return")
          => \E i \in 1..Len(last'.outcome.value) :
                 /\ last'.outcome.value[i].schemas = last.arg[1]
                 /\ b58decode(last'.outcome.value[i].id) = Return(last.resp.peerID)]_vars

\* A listing of two replicators, one of them with a leading zero byte in its
\* identifier.
C6_Witness ==
    /\ last.op = "get_all_replicators"
    /\ last.outcome.kind = "return"
    /\ Len(last.outcome.value) = 2
    /\ last.outcome.value[1].id = <<"1", "z">>
    /\ last.outcome.value[2].id = <<"5", "R">>
    /\ "Users" \in {last.outcome.value[2].schemas[k] :
                       k \in 1..Len(last.outcome.value[2].schemas)}

\* The first segment of a protocol in an address text, <<>> when it has none.
FirstSegment(text, proto) ==
    LET hits == {i \in 1..Len(text.segs) : text.segs[i].proto = proto}
    IN IF ~text.slash \/ hits = {} THEN <<>>
       ELSE <<text.segs[CHOOSE i \in hits : \A j \in hits : i <= j].value>>

\* C7: on a configured address with an IPv4 and a TCP segment, the address
\* translation returns "<ipv4>:<port>" of the first such segments, whatever
\* other segments there are, and every channel is opened at that target; on
\* an address that lacks the IPv4 or the TCP segment it raises and returns no
\* string, and every replicator operation of that client fails with no
\* channel opened and no request sent.
C7_AddressTranslation ==
    LET ip == FirstSegment(cfg.tcp_multiaddr, "ip4")
        port == FirstSegment(cfg.tcp_multiaddr, "tcp")
        t == _multiaddr_to_porthost(cfg.tcp_multiaddr)
    IN IF ip # <<>> /\ port # <<>>
       THEN /\ t = Return([host |-> ip[1], port |-> port[1][1]])
            /\ \A i \in 1..Len(channels) : channels[i].target = t.value
            /\ (cfg.tcp_multiaddr = A_ok
                => t.value = [host |-> <<127, 0, 0, 1>>, port |-> 9161])
       ELSE /\ t.kind = "raise"
            /\ channels = <<>>
            /\ last.op \in ReplicatorOps => (last.outcome = t /\ wire = <<>>)

\* A replicator operation on a client whose address has no TCP segment has
\* failed with the lookup error of the translation.
C7_Witness ==
    /\ cfg.tcp_multiaddr = A_no_tcp
    /\ last.op = "get_all_replicators"
    /\ last.outcome = Raise("ProtocolLookupError", <<"tcp">>)
    /\ wire = <<>>

\* Whether the one request of the last call failed: a transport failure, a
\* body that is no JSON, an RPC error, a non-200 peer-id response, errors
\* reported by the query endpoint, or a non-idempotent schema error.
LastRequestFailed ==
    /\ wire # <<>>
    /\ \/ last.resp.kind \in {"transport_error", "not_json", "error"}
       \/ last.op = "_get_peerid" /\ last.resp.status_code # 200
       \/ /\ last.op \in {"request", "create_doc"}
          /\ "errors" \in DOMAIN last.resp.json
       \/ \E i \in 1..Len(LastErrors) : ~MatchesAlreadyExists(LastErrors[i])

\* C8: no automatic retries.  Every call of a public operation sends at most
\* one request, and a call whose request failed ends by raising to the
\* caller with that one request sent.
C8_NoRetries ==
    /\ Len(wire) <= 1
    /\ LastRequestFailed => (last.outcome.kind = "raise" /\ Len(wire) = 1)

\* A query whose transport failed has raised after its single request.
C8_Witness ==
    /\ last.op = "request"
    /\ last.resp.kind = "transport_error"
    /\ last.outcome.kind = "raise"
    /\ Len(wire) = 1

\* C9 as stated: after any sequence of replicator operations, no channel
\* opened by a completed call is still open.
C9_ChannelsReleased == \A i \in 1..Len(channels) : ~channels[i].open

\* C9, amended: each call of a replicator operation on a client whose
\* configured address translates creates exactly one channel of its own and
\* sends its request (if any) on it; no call closes a channel, so every
\* channel created is still open after the call returns or fails; a call on
\* a client whose address does not translate creates none.
C9_ChannelsLeftOpen ==
    [][last'.op \in ReplicatorOps
       => /\ \A i \in 1..Len(channels') : channels'[i].open
          /\ SubSeq(channels', 1, Len(channels)) = channels
          /\ Len(channels') = Len(channels) +
                 (IF _multiaddr_to_porthost(cfg.tcp_multiaddr).kind = "return"
                  THEN 1 ELSE 0)
          /\ \A k \in 1..Len(wire') : wire'[k].channel = Len(channels')]_vars

\* A delete_replicator that failed on its peer id has left its channel, the
\* second of the run, open.
C9_Witness ==
    /\ last.op = "delete_replicator"
    /\ last.outcome.kind = "raise"
    /\ last.outcome.exc = "ValueError"
    /\ Len(channels) = 2
    /\ channels[2].open

InvalidBase58(s) == \E i \in 1..Len(s) : s[i] \notin AlphabetChars

\* C10 as stated: delete_replicator with a peer-id string that is not valid
\* base-58 fails with the identifier-format error, and sends no request.
C10_InvalidIdIsIdentifierError ==
    (last.op = "delete_replicator" /\ InvalidBase58(last.arg))
    => (last.outcome = Raise("ValueError", <<"Invalid character">>) /\ wire = <<>>)

\* C10, amended: delete_replicator with a peer-id string that is not valid
\* base-58 fails without sending a DeleteReplicator request, leaves the
\* remote's replicator records as they were and is not retried; the error is
\* the identifier-format error when the client's configured address
\* translates, and the error of the address translation, which runs first,
\* when it does not.
C10_InvalidIdNotSent ==
    [][(last'.op = "delete_replicator" /\ InvalidBase58(last'.arg))
       => /\ wire' = <<>>
          /\ replicators' = replicators
          /\ last'.outcome =
                 (IF _multiaddr_to_porthost(cfg.tcp_multiaddr).kind = "return"
                  THEN Raise("ValueError", <<"Invalid character">>)
                  ELSE _multiaddr_to_porthost(cfg.tcp_multiaddr))]_vars

\* With a replicator on the remote, a delete_replicator of an invalid id has
\* raised the identifier-format error and the replicator is still there.
C10_Witness ==
    /\ last.op = "delete_replicator"
    /\ InvalidBase58(last.arg)
    /\ last.outcome = Raise("ValueError", <<"Invalid character">>)
    /\ wire = <<>>
    /\ Len(replicators) = 1

=============================================================================
